---- MODULE Spec2Model ----
(***************************************************************************)
(* A model of puffin's HuffmanTable (src/huffman_table.cc): the canonical  *)
(* Huffman code construction, the forward and the reverse tables, the      *)
(* fixed tables, and the two directions of the dynamic-header transcoder   *)
(* (DEFLATE bits -> puff bytes and puff bytes -> DEFLATE bits).            *)
(*                                                                         *)
(* Buffers and vectors are sequences: element i of a C++ vector is element *)
(* i + 1 of the sequence.  A table vector (hcodes, rcodes) is a record     *)
(* [size, data]: size is the vector's size() and data holds its leading    *)
(* elements, every element from Len(data) up to size - 1 being 0 (vectors  *)
(* are value-initialized by resize and most of a 1 << 15 table stays 0).   *)
(***************************************************************************)
EXTENDS Integers, Sequences, FiniteSets, TLC

VARIABLES
  ht,   \* the HuffmanTable instance: its member fields
  inp,  \* the arguments of the call under study
  ret,  \* what the last call returned and left in its out-parameters
  pc    \* the position of the driver: which call comes next

vars == <<ht, inp, ret, pc>>

----------------------------------------------------------------------------
(* Bounds of the model.                                                    *)

\* Longest code-length array drawn as a direct input of the table builders.
MaxSyms == 4
\* Largest code length in those arrays.
MaxCodeLen == 3
\* Longest bit sequence drawn as the input of the code-length decoder.
MaxInBits == 9
\* Longest puff byte sequence drawn as the input of the code-length encoder.
MaxPuffLen == 3

----------------------------------------------------------------------------
(* Program constants.                                                      *)

kMaxHuffmanBits == 15

kPermutations ==
  <<16, 17, 18, 0, 8, 7, 9, 6, 10, 5, 11, 4, 12, 3, 13, 2, 14, 1, 15>>

\* The valid bit of a forward-table entry.
kValidBit == 32768

\* uint16_t arithmetic wraps at 2^16.
kUint16 == 65536

\* The Error enumeration, and the value of an error the call did not set.
kInvalidInput == "kInvalidInput"
kInsufficientInput == "kInsufficientInput"
kInsufficientOutput == "kInsufficientOutput"
kUnset == "unset"

----------------------------------------------------------------------------
(* Integer helpers.                                                        *)

Pow2(n) == 2 ^ n

\* x | 0x8000 on a 16-bit value.
OrValid(x) == IF (x \div kValidBit) % 2 = 1 THEN x ELSE x + kValidBit

\* x & 0x8000 is nonzero.
IsValid(x) == (x \div kValidBit) % 2 = 1

\* n zeros, as a sequence.
Zeros(n) == <<>> \o [i \in 1..n |-> 0]

\* F applied to the value of v, which is computed once.
Let(v, F(_)) == CHOOSE r \in {F(x) : x \in {v}} : TRUE

Max(a, b) == IF a >= b THEN a ELSE b
Min(a, b) == IF a <= b THEN a ELSE b

----------------------------------------------------------------------------
(* Table vectors.                                                          *)

\* A vector of n value-initialized (zero) elements.
NewVec(n) == [size |-> n, data |-> <<>>]

\* v[i], for i < v.size.
VecAt(v, i) == IF i < Len(v.data) THEN v.data[i + 1] ELSE 0

\* s without its trailing zeros.
StripZeros(s) ==
  LET nonzero == {i \in 1..Len(s) : s[i] # 0} IN
  IF nonzero = {} THEN <<>>
  ELSE SubSeq(s, 1, CHOOSE i \in nonzero : \A j \in nonzero : j <= i)

\* The vector whose first Len(d) elements are d and the rest those of v.
VecWithPrefix(v, d) ==
  [size |-> v.size,
   data |-> StripZeros(
     IF Len(v.data) > Len(d)
       THEN d \o SubSeq(v.data, Len(d) + 1, Len(v.data))
       ELSE d)]

----------------------------------------------------------------------------
(* InitHuffmanCodes.                                                       *)

\* Step 1: len_count_[len]++ for every len of lens (uint16_t counters).
LenCount(lens) ==
  [l \in 0..kMaxHuffmanBits |->
     Cardinality({i \in DOMAIN lens : lens[i] = l}) % kUint16]

\* The loop that lowers *max_bits from kMaxHuffmanBits to the largest length
\* with a nonzero count, or to 0.
RECURSIVE MaxBitsLoop(_, _)
MaxBitsLoop(len_count, max_bits) ==
  IF max_bits >= 1 /\ len_count[max_bits] = 0
    THEN MaxBitsLoop(len_count, max_bits - 1)
    ELSE max_bits

\* A variant whose loop stops at 1: for (...; *max_bits > 1; ...).
FindMaxBitsStopsAtOne(len_count) == Max(1, MaxBitsLoop(len_count, kMaxHuffmanBits))

FindMaxBits(len_count) == MaxBitsLoop(len_count, kMaxHuffmanBits)

\* A variant of the check that also rejects a length carried by exactly
\* 1 << idx symbols.
OversubscribedAtEquality(len_count, max_bits) ==
  \E idx \in 1..max_bits : len_count[idx] >= Pow2(idx)

\* A variant of the check that lets a length be carried by up to
\* 1 << (idx + 1) symbols.
OversubscribedOffByOne(len_count, max_bits) ==
  \E idx \in 1..max_bits : len_count[idx] > Pow2(idx + 1)

\* The oversubscription check: some length idx in 1..max_bits has more than
\* 1 << idx symbols.
Oversubscribed(len_count, max_bits) ==
  \E idx \in 1..max_bits : len_count[idx] > Pow2(idx)

\* Step 2: the first code of each length, with len_count_[0] set to 0.
RECURSIVE NextCodeLoop(_, _, _, _)
NextCodeLoop(len_count, bits, code, next_code) ==
  IF bits > kMaxHuffmanBits THEN next_code
  ELSE LET c == ((code + (IF bits - 1 = 0 THEN 0 ELSE len_count[bits - 1])) * 2)
                 % kUint16
       IN NextCodeLoop(len_count, bits + 1, c, [next_code EXCEPT ![bits] = c])

FirstCodes(len_count) ==
  NextCodeLoop(len_count, 1, 0, [l \in 0..kMaxHuffmanBits |-> 0])

\* The code reversal: the low len bits of tmp_code, in reverse order.
RECURSIVE ReverseLoop(_, _, _, _)
ReverseLoop(tmp_code, len, r, code) ==
  IF r >= len THEN code
  ELSE ReverseLoop(tmp_code \div 2, len, r + 1, (code * 2 + (tmp_code % 2)) % kUint16)

\* A variant that keeps the low len bits in their order.
ReverseCodeUnreversed(tmp_code, len) == tmp_code % Pow2(len)

ReverseCode(tmp_code, len) == ReverseLoop(tmp_code, len, 0, 0)

\* Step 3, one iteration: symbol idx of nonzero length takes the next code of
\* its length, reversed.  st: idx, next_code_ and codeindexpairs_.
AssignStep(lens, st) ==
  LET len == lens[st.idx + 1] IN
  IF len = 0 THEN [st EXCEPT !.idx = @ + 1]
  ELSE [idx |-> st.idx + 1,
        next_code |-> [st.next_code EXCEPT ![len] = (@ + 1) % kUint16],
        pairs |-> Append(st.pairs, [code |-> ReverseCode(st.next_code[len], len),
                                    index |-> st.idx])]

\* Step 3: at most n iterations of for (idx = 0; idx < lens.size(); idx++)
\* (evaluated by halves).
RECURSIVE AssignLoop(_, _, _)
AssignLoop(lens, n, st) ==
  IF n = 0 \/ ~(st.idx < Len(lens)) THEN st
  ELSE IF n = 1 THEN AssignStep(lens, st)
  ELSE AssignLoop(lens, n - (n \div 2), AssignLoop(lens, n \div 2, st))

\* InitHuffmanCodes(lens, max_bits): the return value, *max_bits and, when it
\* returns true, the codeindexpairs_ it leaves (scratch storage of the
\* instance, which every call that reads it fills first).
InitHuffmanCodes(lens) ==
  LET len_count == LenCount(lens)
      max_bits == FindMaxBits(len_count)
  IN IF Oversubscribed(len_count, max_bits)
       THEN [ok |-> FALSE, max_bits |-> max_bits, pairs |-> <<>>]
       ELSE [ok |-> TRUE, max_bits |-> max_bits,
             pairs |-> AssignLoop(lens, Len(lens),
                                  [idx |-> 0,
                                   next_code |-> FirstCodes(len_count),
                                   pairs |-> <<>>]).pairs]

----------------------------------------------------------------------------
(* BuildHuffmanCodes: the forward (decoding) table.                        *)

\* std::sort by descending length.  Pairs of one length have distinct codes
\* of that length and so write disjoint slots of the table: the order the
\* sort leaves them in does not show in the table, and the model keeps them
\* in index order.
RECURSIVE SortByLenDesc(_, _, _)
SortByLenDesc(lens, pairs, len) ==
  IF len < 1 THEN <<>>
  ELSE SelectSeq(pairs, LAMBDA cip : lens[cip.index + 1] = len)
         \o SortByLenDesc(lens, pairs, len - 1)

\* The inner loop: every location (idx << len) | code, idx in 1..(1 << fill_bits) - 1,
\* takes the symbol unless it already holds a valid entry.
ExtendStep(cip, len, st) ==
  LET location == st.idx * Pow2(len) + cip.code IN
  IF IsValid(st.d[location + 1]) THEN [st EXCEPT !.idx = @ + 1]
  ELSE [idx |-> st.idx + 1, d |-> [st.d EXCEPT ![location + 1] = OrValid(cip.index)]]

\* At most n iterations of for (idx = 1; idx < (1 << fill_bits); idx++)
\* (evaluated by halves).  st: idx and the table.
RECURSIVE ExtendLoop(_, _, _, _, _)
ExtendLoop(cip, len, fill_bits, n, st) ==
  IF n = 0 \/ ~(st.idx < Pow2(fill_bits)) THEN st
  ELSE IF n = 1 THEN ExtendStep(cip, len, st)
  ELSE ExtendLoop(cip, len, fill_bits, n - (n \div 2),
                  ExtendLoop(cip, len, fill_bits, n \div 2, st))

\* A variant that writes the slot of the code itself and no other.
FillPairNoFanOut(d, cip, len, max_bits) ==
  [d EXCEPT ![cip.code + 1] = OrValid(cip.index)]

\* One pair: the slot of the code itself is overwritten unconditionally.
FillPair(d, cip, len, max_bits) ==
  ExtendLoop(cip, len, max_bits - len, Pow2(max_bits - len),
             [idx |-> 1, d |-> [d EXCEPT ![cip.code + 1] = OrValid(cip.index)]]).d

\* At most n iterations of the loop over codeindexpairs_ (evaluated by
\* halves).  st: the number of pairs done and the table.
RECURSIVE FillLoop(_, _, _, _, _)
FillLoop(lens, pairs, max_bits, n, st) ==
  IF n = 0 \/ ~(st.k < Len(pairs)) THEN st
  ELSE IF n = 1
    THEN [k |-> st.k + 1,
          d |-> FillPair(st.d, pairs[st.k + 1], lens[pairs[st.k + 1].index + 1],
                         max_bits)]
  ELSE FillLoop(lens, pairs, max_bits, n - (n \div 2),
                FillLoop(lens, pairs, max_bits, n \div 2, st))

\* BuildHuffmanCodes(lens, hcodes, max_bits): the return value, *max_bits and
\* *hcodes.  oob: the memset of 1 << max_bits entries runs past the end of the
\* vector (undefined behaviour; hcodes is then reported as it was).
BuildHuffmanCodes(lens, hcodes) ==
  LET init == InitHuffmanCodes(lens) IN
  IF ~init.ok
    THEN [ok |-> FALSE, max_bits |-> init.max_bits, hcodes |-> hcodes, oob |-> FALSE]
  ELSE IF Pow2(init.max_bits) > hcodes.size
    THEN [ok |-> TRUE, max_bits |-> init.max_bits, hcodes |-> hcodes, oob |-> TRUE]
  ELSE [ok |-> TRUE, max_bits |-> init.max_bits, oob |-> FALSE,
        hcodes |-> VecWithPrefix(hcodes,
          FillLoop(lens, SortByLenDesc(lens, init.pairs, kMaxHuffmanBits),
                   init.max_bits, Len(init.pairs),
                   [k |-> 0, d |-> Zeros(Pow2(init.max_bits))]).d)]

----------------------------------------------------------------------------
(* BuildHuffmanReverseCodes: the reverse (encoding) table.                 *)

\* The loop over idx < rcodes->size(): the pairs are in ascending index order
\* and index walks them.  st: index and the entries written, idx being their
\* number.
ReverseFillStep(pairs, st) ==
  IF st.index < Len(pairs) /\ Len(st.d) = pairs[st.index + 1].index
    THEN [index |-> st.index + 1, d |-> Append(st.d, pairs[st.index + 1].code)]
    ELSE [index |-> st.index, d |-> Append(st.d, 0)]

\* At most n iterations of the loop (evaluated by halves).
RECURSIVE ReverseFillLoop(_, _, _, _)
ReverseFillLoop(pairs, size, n, st) ==
  IF n = 0 \/ ~(Len(st.d) < size) THEN st
  ELSE IF n = 1 THEN ReverseFillStep(pairs, st)
  ELSE ReverseFillLoop(pairs, size, n - (n \div 2),
                       ReverseFillLoop(pairs, size, n \div 2, st))

\* BuildHuffmanReverseCodes(lens, rcodes, max_bits): the return value,
\* *max_bits and *rcodes.
BuildHuffmanReverseCodes(lens, rcodes) ==
  LET init == InitHuffmanCodes(lens) IN
  IF ~init.ok
    THEN [ok |-> FALSE, max_bits |-> init.max_bits, rcodes |-> rcodes]
    ELSE [ok |-> TRUE, max_bits |-> init.max_bits,
          rcodes |-> VecWithPrefix(rcodes,
            ReverseFillLoop(init.pairs, rcodes.size, rcodes.size,
                            [index |-> 0, d |-> <<>>]).d)]

----------------------------------------------------------------------------
(* The HuffmanTable instance.                                              *)

\* The value of a size_t member the constructor leaves uninitialized.  No
\* call modelled here reads a *_max_bits_ member before writing it.
Indeterminate == -1

\* HuffmanTable::HuffmanTable(): initialized_ is false and every vector but
\* codeindexpairs_ is empty.
NewTable ==
  [initialized_ |-> FALSE,
   code_lens_ |-> <<>>, lit_len_lens_ |-> <<>>, distance_lens_ |-> <<>>,
   code_hcodes_ |-> NewVec(0), lit_len_hcodes_ |-> NewVec(0),
   distance_hcodes_ |-> NewVec(0),
   code_rcodes_ |-> NewVec(0), lit_len_rcodes_ |-> NewVec(0),
   distance_rcodes_ |-> NewVec(0),
   code_max_bits_ |-> Indeterminate, lit_len_max_bits_ |-> Indeterminate,
   distance_max_bits_ |-> Indeterminate]

\* No call has returned yet.
NoRet == [op |-> "none"]

----------------------------------------------------------------------------
(* The bit reader and the bit writer.  BitReaderInterface and              *)
(* BitWriterInterface are implemented outside huffman_table.cc; they are   *)
(* modelled as the design describes them: a reader is a bit sequence and a *)
(* position, a writer a bit sequence and a capacity in bits.               *)

\* CacheBits(n): at least n more bits are available.
CacheBits(bits, pos, n) == Len(bits) - pos >= n

\* ReadBits(n): the next n bits as an unsigned integer, first bit lowest,
\* without advancing.
RECURSIVE ReadBits(_, _, _)
ReadBits(bits, pos, n) ==
  IF n = 0 THEN 0 ELSE bits[pos + 1] + 2 * ReadBits(bits, pos + 1, n - 1)

\* The n low bits of value, lowest first.
RECURSIVE BitsOf(_, _)
BitsOf(n, value) ==
  IF n = 0 THEN <<>> ELSE <<value % 2>> \o BitsOf(n - 1, value \div 2)

\* A writer of capacity cap bits that has written nothing.
NewWriter(cap) == [bits |-> <<>>, cap |-> cap]

\* WriteBits(n, value) succeeds.
CanWrite(bw, n) == Len(bw.bits) + n <= bw.cap

\* The writer after a successful WriteBits(n, value).
WriteBits(bw, n, value) == [bw EXCEPT !.bits = @ \o BitsOf(n, value)]

----------------------------------------------------------------------------
(* The inline helpers of huffman_table.h that the transcoder calls.        *)

\* CheckHuffmanArrayLengths: HLIT + 257 <= 286, HDIST + 1 <= 30, HCLEN + 4 <= 19.
CheckHuffmanArrayLengths(num_lit_len, num_distance, num_codes) ==
  ~(num_lit_len > 286 \/ num_distance > 30 \/ num_codes > 19)

\* CodeAlphabet(bits, &alphabet, &nbits): the forward lookup in code_hcodes_;
\* nbits is the length of the symbol found.
CodeAlphabet(t, bits) ==
  LET hc == VecAt(t.code_hcodes_, bits) IN
  IF ~IsValid(hc) THEN [ok |-> FALSE, alphabet |-> 0, nbits |-> 0]
  ELSE [ok |-> TRUE, alphabet |-> hc % kValidBit,
        nbits |-> t.code_lens_[(hc % kValidBit) + 1]]

\* CodeHuffman(alphabet, &huffman, &nbits): the reverse lookup in code_rcodes_.
\* oob: the lookup reads past the end of code_rcodes_ (undefined behaviour).
CodeHuffman(t, alphabet) ==
  IF ~(alphabet < Len(t.code_lens_))
    THEN [ok |-> FALSE, huffman |-> 0, nbits |-> 0, oob |-> FALSE]
  ELSE [ok |-> TRUE, huffman |-> VecAt(t.code_rcodes_, alphabet),
        nbits |-> t.code_lens_[alphabet + 1],
        oob |-> ~(alphabet < t.code_rcodes_.size)]

\* n copies of v, as a sequence.
Copies(n, v) == <<>> \o [i \in 1..n |-> v]

----------------------------------------------------------------------------
(* BuildHuffmanCodeLengths, bits to puff.                                  *)

\* The number of extra bits after codes 16, 17, 18, the base of the repeat
\* count and the base of the puff value.
ExtraBits(code) == IF code = 16 THEN 2 ELSE IF code = 17 THEN 3 ELSE 7
CopyBase(code) == IF code = 18 THEN 11 ELSE 3

\* A variant whose puff ranges start at 16, 19 and 27 and so overlap.
PuffBaseOverlapping(code) == IF code = 16 THEN 16 ELSE IF code = 17 THEN 19 ELSE 27

PuffBase(code) == IF code = 16 THEN 16 ELSE IF code = 17 THEN 20 ELSE 28

\* The state of the loop: fin is "run" while the loop runs, then "ok" or
\* "fail"; pos is the reader's position, out the bytes written to buffer
\* (index is their number), lens the array (idx is its length) and steps, for
\* the properties, one record per symbol decoded.
\* A variant that returns false without setting *error.
LensFailErrorNotSet(st, error) == [st EXCEPT !.fin = "fail"]

LensFail(st, error) == [st EXCEPT !.fin = "fail", !.error = error]

\* One pass of the loop of BuildHuffmanCodeLengths(br, buffer, length,
\* max_bits, num_codes, lens, error), from the test idx < num_codes on.
PuffLensStep(t, bits, length, max_bits, num_codes, st) ==
  LET idx == Len(st.lens)
      index == Len(st.out)
  IN
  IF ~(idx < num_codes) THEN [st EXCEPT !.fin = "ok"]
  ELSE IF ~CacheBits(bits, st.pos, max_bits) THEN LensFail(st, kInsufficientInput)
  ELSE
  LET ca == CodeAlphabet(t, ReadBits(bits, st.pos, max_bits))
      code == ca.alphabet
      pos1 == st.pos + ca.nbits
  IN
  IF ~ca.ok THEN LensFail(st, kInvalidInput)
  ELSE IF ~(index < length) THEN LensFail(st, kInsufficientOutput)
  ELSE IF code < 16 THEN
    [st EXCEPT !.pos = pos1, !.out = Append(@, code), !.lens = Append(@, code),
               !.steps = Append(@,
                 [at |-> st.pos, nbits |-> ca.nbits, code |-> code, extra |-> 0,
                  pcode |-> code, appended |-> <<code>>])]
  ELSE IF ~(code < 19) THEN LensFail([st EXCEPT !.pos = pos1], kInvalidInput)
  ELSE IF code = 16 /\ ~(idx # 0) THEN LensFail([st EXCEPT !.pos = pos1], kInvalidInput)
  ELSE IF ~CacheBits(bits, pos1, ExtraBits(code))
    THEN LensFail([st EXCEPT !.pos = pos1], kInsufficientInput)
  ELSE
  LET extra == ReadBits(bits, pos1, ExtraBits(code))
      copy_num == CopyBase(code) + extra
      copy_val == IF code = 16 THEN st.lens[idx] ELSE 0
      appended == Copies(copy_num, copy_val)
  IN [st EXCEPT !.pos = pos1 + ExtraBits(code),
                !.out = Append(@, PuffBase(code) + extra),
                !.lens = @ \o appended,
                !.steps = Append(@,
                  [at |-> st.pos, nbits |-> ca.nbits, code |-> code,
                   extra |-> extra, pcode |-> PuffBase(code) + extra,
                   appended |-> appended])]

\* At most n passes of the loop, stopping when it ends (evaluated by halves).
RECURSIVE PuffLensLoop(_, _, _, _, _, _, _)
PuffLensLoop(t, bits, length, max_bits, num_codes, n, st) ==
  IF st.fin # "run" \/ n = 0 THEN st
  ELSE IF n = 1 THEN PuffLensStep(t, bits, length, max_bits, num_codes, st)
  ELSE PuffLensLoop(t, bits, length, max_bits, num_codes, n - (n \div 2),
         PuffLensLoop(t, bits, length, max_bits, num_codes, n \div 2, st))

\* BuildHuffmanCodeLengths(br, buffer, length, max_bits, num_codes, lens, error)
\* with the reader at pos: fin ("ok": it returned true), *error, the reader's
\* position, the bytes written (on success *length is their number) and
\* *lens.  Every pass but the last lengthens lens, so the loop makes at most
\* num_codes + 1 passes.
PuffBuildHuffmanCodeLengths(t, bits, pos, length, max_bits, num_codes) ==
  PuffLensLoop(t, bits, length, max_bits, num_codes, num_codes + 1,
               [fin |-> "run", error |-> kUnset, pos |-> pos, out |-> <<>>,
                lens |-> <<>>, steps |-> <<>>])

----------------------------------------------------------------------------
(* BuildHuffmanCodeLengths, puff to bits.                                  *)

\* The code of a puff value: pcode < 16 ? pcode : pcode < 20 ? 16 : pcode < 28 ? 17 : 18.
CodeOfPuff(pcode) ==
  IF pcode < 16 THEN pcode ELSE IF pcode < 20 THEN 16 ELSE IF pcode < 28 THEN 17 ELSE 18

\* One pass of the loop of BuildHuffmanCodeLengths(buffer, length, bw,
\* num_codes, lens, error).  The state of the loop: fin, error, index, the
\* writer, lens (idx is its length) and one record per puff value read.
HuffLensStep(t, buffer, length, num_codes, st) ==
  LET idx == Len(st.lens) IN
  IF ~(idx < num_codes) THEN [st EXCEPT !.fin = "ok"]
  ELSE IF ~(st.index < length) THEN LensFail(st, kInsufficientInput)
  ELSE
  LET pcode == buffer[st.index + 1]
      st1 == [st EXCEPT !.index = @ + 1]
      code == CodeOfPuff(pcode)
      ch == CodeHuffman(t, code)
      bw1 == WriteBits(st.bw, ch.nbits, ch.huffman)
      st2 == [st1 EXCEPT !.bw = bw1]
      extra == pcode - PuffBase(code)
      copy_num == CopyBase(code) + extra
      copy_val == IF code = 16 THEN st.lens[idx] ELSE 0
      appended == Copies(copy_num, copy_val)
  IN
  IF ~(pcode <= 155) THEN LensFail(st1, kInvalidInput)
  ELSE IF ~ch.ok THEN LensFail(st1, kInvalidInput)
  ELSE IF ch.oob THEN [st1 EXCEPT !.fin = "ub"]
  ELSE IF ~CanWrite(st.bw, ch.nbits) THEN LensFail(st1, kInsufficientOutput)
  ELSE IF code < 16 THEN
    [st2 EXCEPT !.lens = Append(@, code),
                !.steps = Append(@,
                  [pcode |-> pcode, code |-> code, nbits |-> ch.nbits,
                   huffman |-> ch.huffman, extra |-> 0, appended |-> <<code>>])]
  ELSE IF code = 16 /\ ~(idx # 0) THEN LensFail(st2, kInvalidInput)
  ELSE IF ~CanWrite(bw1, ExtraBits(code)) THEN LensFail(st2, kInsufficientOutput)
  ELSE
    [st2 EXCEPT !.bw = WriteBits(bw1, ExtraBits(code), extra),
                !.lens = @ \o appended,
                !.steps = Append(@,
                  [pcode |-> pcode, code |-> code, nbits |-> ch.nbits,
                   huffman |-> ch.huffman, extra |-> extra,
                   appended |-> appended])]

\* At most n passes of the loop, stopping when it ends (evaluated by halves).
RECURSIVE HuffLensLoop(_, _, _, _, _, _)
HuffLensLoop(t, buffer, length, num_codes, n, st) ==
  IF st.fin # "run" \/ n = 0 THEN st
  ELSE IF n = 1 THEN HuffLensStep(t, buffer, length, num_codes, st)
  ELSE HuffLensLoop(t, buffer, length, num_codes, n - (n \div 2),
         HuffLensLoop(t, buffer, length, num_codes, n \div 2, st))

\* BuildHuffmanCodeLengths(buffer, length, bw, num_codes, lens, error), buffer
\* being the bytes from the caller's index on: fin, *error, the number of
\* bytes read (on success *length), the writer and *lens.
HuffBuildHuffmanCodeLengths(t, buffer, length, bw, num_codes) ==
  HuffLensLoop(t, buffer, length, num_codes, num_codes + 1,
               [fin |-> "run", error |-> kUnset, index |-> 0, bw |-> bw,
                lens |-> <<>>, steps |-> <<>>])

----------------------------------------------------------------------------
(* BuildDynamicHuffmanTable, bits to puff.                                 *)

\* std::vector::resize(n) on a length array and on a table.
ResizeSeq(s, n) ==
  IF Len(s) >= n THEN SubSeq(s, 1, n) ELSE s \o Zeros(n - Len(s))

ResizeVec(v, n) ==
  [size |-> n,
   data |-> StripZeros(IF Len(v.data) > n THEN SubSeq(v.data, 1, n) ELSE v.data)]

\* if (!initialized_) { ... } of the bits to puff direction.
PuffResized(t) ==
  IF t.initialized_ THEN t
  ELSE [t EXCEPT
          !.code_lens_ = ResizeSeq(@, 19),
          !.code_hcodes_ = ResizeVec(@, Pow2(7)),
          !.lit_len_lens_ = ResizeSeq(@, 286),
          !.lit_len_hcodes_ = ResizeVec(@, Pow2(15)),
          !.distance_lens_ = ResizeSeq(@, 30),
          !.distance_hcodes_ = ResizeVec(@, Pow2(15)),
          !.initialized_ = TRUE]

\* One pass of the loop that reads the meta code lengths, two per byte.  out
\* holds the bytes written, the half-written one included; writing
\* code_lens_ past its end is undefined behaviour (fin = "ub").
PuffMetaStep(bits, idx, st) ==
  IF ~CacheBits(bits, st.pos, 3) THEN [st EXCEPT !.fin = "fail"]
  ELSE IF ~(kPermutations[idx + 1] < Len(st.code_lens)) THEN [st EXCEPT !.fin = "ub"]
  ELSE
  LET v == ReadBits(bits, st.pos, 3) IN
  [st EXCEPT !.code_lens[kPermutations[idx + 1] + 1] = v,
             !.out = IF st.checked THEN [@ EXCEPT ![Len(@)] = @ + v]
                                   ELSE Append(@, v * 16),
             !.checked = ~@,
             !.pos = @ + 3]

RECURSIVE PuffMetaLoop(_, _, _, _)
PuffMetaLoop(bits, idx, num_codes, st) ==
  IF ~(idx < num_codes) \/ st.fin # "run" THEN st
  ELSE PuffMetaLoop(bits, idx + 1, num_codes, PuffMetaStep(bits, idx, st))

\* for (; idx < 19; idx++) code_lens_[kPermutations[idx]] = 0;
RECURSIVE ZeroRestLoop(_, _)
ZeroRestLoop(code_lens, idx) ==
  IF ~(idx < 19) THEN code_lens
  ELSE ZeroRestLoop([code_lens EXCEPT ![kPermutations[idx + 1] + 1] = 0], idx + 1)

\* What a call of BuildDynamicHuffmanTable leaves: the return value, whether
\* it ran into undefined behaviour, *error, the instance, the reader's
\* position or the bytes read, and what it wrote.  reached counts the
\* code-length arrays of the header the call has parsed whole when it returns:
\* 1 the meta array, 2 the literal/length array too, 3 all three.
PuffRet(ok, ub, error, t, pos, out, reached) ==
  [ok |-> ok, ub |-> ub, error |-> error, t |-> t, pos |-> pos, out |-> out,
   reached |-> reached]

\* BuildDynamicHuffmanTable(br, buffer, length, error) on instance t0, the
\* reader at the first header bit and *length = length.  On success *length
\* is Len(out).
PuffBuildDynamicHuffmanTable(t0, bits, length) ==
  Let(PuffResized(t0), LAMBDA t1 :
  IF ~(length >= 3) THEN PuffRet(FALSE, FALSE, kInsufficientOutput, t1, 0, <<>>, 0)
  ELSE IF ~CacheBits(bits, 0, 14)
    THEN PuffRet(FALSE, FALSE, kInsufficientInput, t1, 0, <<>>, 0)
  ELSE
  LET num_lit_len == ReadBits(bits, 0, 5) + 257
      num_distance == ReadBits(bits, 5, 5) + 1
      num_codes == ReadBits(bits, 10, 4) + 4
      out3 == <<ReadBits(bits, 0, 5), ReadBits(bits, 5, 5), ReadBits(bits, 10, 4)>>
  IN
  IF ~CheckHuffmanArrayLengths(num_lit_len, num_distance, num_codes)
    THEN PuffRet(FALSE, FALSE, kInvalidInput, t1, 14, out3, 0)
  ELSE IF ~(length - 3 >= (num_codes + 1) \div 2)
    THEN PuffRet(FALSE, FALSE, kInsufficientOutput, t1, 14, out3, 0)
  ELSE
  Let(PuffMetaLoop(bits, 0, num_codes,
                   [fin |-> "run", pos |-> 14, out |-> out3,
                    code_lens |-> t1.code_lens_, checked |-> FALSE]), LAMBDA m :
  IF m.fin = "ub" THEN PuffRet(FALSE, TRUE, kUnset, t1, m.pos, m.out, 0)
  ELSE IF m.fin = "fail"
    THEN PuffRet(FALSE, FALSE, kInsufficientInput,
                 [t1 EXCEPT !.code_lens_ = m.code_lens], m.pos, m.out, 0)
  ELSE
  Let(ZeroRestLoop(m.code_lens, num_codes), LAMBDA code_lens :
  Let(BuildHuffmanCodes(code_lens, t1.code_hcodes_), LAMBDA bc :
  Let([t1 EXCEPT !.code_lens_ = code_lens, !.code_hcodes_ = bc.hcodes,
                 !.code_max_bits_ = bc.max_bits], LAMBDA t2 :
  IF ~bc.ok THEN PuffRet(FALSE, FALSE, kInvalidInput, t2, m.pos, m.out, 1)
  ELSE IF bc.oob THEN PuffRet(FALSE, TRUE, kUnset, t2, m.pos, m.out, 1)
  ELSE
  \* Build literals/lengths Huffman code length array and codes.
  Let(PuffBuildHuffmanCodeLengths(t2, bits, m.pos, length - Len(m.out),
                                  bc.max_bits, num_lit_len), LAMBDA lit :
  Let([t2 EXCEPT !.lit_len_lens_ = lit.lens], LAMBDA t3 :
  IF lit.fin # "ok"
    THEN PuffRet(FALSE, FALSE, lit.error, t3, lit.pos, m.out \o lit.out, 1)
  ELSE
  Let(BuildHuffmanCodes(lit.lens, t3.lit_len_hcodes_), LAMBDA bl :
  Let([t3 EXCEPT !.lit_len_hcodes_ = bl.hcodes, !.lit_len_max_bits_ = bl.max_bits],
      LAMBDA t4 :
  IF ~bl.ok THEN PuffRet(FALSE, FALSE, kInvalidInput, t4, lit.pos, m.out \o lit.out, 2)
  ELSE IF bl.oob THEN PuffRet(FALSE, TRUE, kUnset, t4, lit.pos, m.out \o lit.out, 2)
  ELSE
  \* Build distance Huffman code length array and codes.
  Let(PuffBuildHuffmanCodeLengths(t4, bits, lit.pos,
                                  length - Len(m.out) - Len(lit.out),
                                  bc.max_bits, num_distance), LAMBDA dist :
  Let([t4 EXCEPT !.distance_lens_ = dist.lens], LAMBDA t5 :
  Let(m.out \o lit.out \o dist.out, LAMBDA out :
  IF dist.fin # "ok" THEN PuffRet(FALSE, FALSE, dist.error, t5, dist.pos, out, 2)
  ELSE
  Let(BuildHuffmanCodes(dist.lens, t5.distance_hcodes_), LAMBDA bd :
  Let([t5 EXCEPT !.distance_hcodes_ = bd.hcodes, !.distance_max_bits_ = bd.max_bits],
      LAMBDA t6 :
  IF ~bd.ok THEN PuffRet(FALSE, FALSE, kInvalidInput, t6, dist.pos, out, 3)
  ELSE IF bd.oob THEN PuffRet(FALSE, TRUE, kUnset, t6, dist.pos, out, 3)
  ELSE PuffRet(TRUE, FALSE, kUnset, t6, dist.pos, out, 3)))))))))))))))

----------------------------------------------------------------------------
(* BuildDynamicHuffmanTable, puff to bits.                                 *)

\* if (!initialized_) { ... } of the puff to bits direction.
HuffResized(t) ==
  IF t.initialized_ THEN t
  ELSE [t EXCEPT
          !.code_lens_ = ResizeSeq(@, 19),
          !.code_rcodes_ = ResizeVec(@, 19),
          !.lit_len_lens_ = ResizeSeq(@, 286),
          !.lit_len_rcodes_ = ResizeVec(@, 286),
          !.distance_lens_ = ResizeSeq(@, 30),
          !.distance_rcodes_ = ResizeVec(@, 30),
          !.initialized_ = TRUE]

\* A variant that stores the length of the idx-th nibble at code_lens_[idx].
HuffMetaStepUnpermuted(buffer, idx, st) ==
  LET byte == buffer[st.index + 1]
      len == IF st.checked THEN byte % 16 ELSE byte \div 16
      st1 == [st EXCEPT !.index = IF st.checked THEN @ + 1 ELSE @,
                        !.checked = ~@,
                        !.code_lens[idx + 1] = len]
  IN
  IF ~CanWrite(st.bw, 3) THEN [st1 EXCEPT !.fin = "fail"]
  ELSE [st1 EXCEPT !.bw = WriteBits(st.bw, 3, len)]

\* A variant that takes the low nibble of a byte first.
HuffMetaStepLowNibbleFirst(buffer, idx, st) ==
  LET byte == buffer[st.index + 1]
      len == IF st.checked THEN byte \div 16 ELSE byte % 16
      st1 == [st EXCEPT !.index = IF st.checked THEN @ + 1 ELSE @,
                        !.checked = ~@,
                        !.code_lens[kPermutations[idx + 1] + 1] = len]
  IN
  IF ~CanWrite(st.bw, 3) THEN [st1 EXCEPT !.fin = "fail"]
  ELSE [st1 EXCEPT !.bw = WriteBits(st.bw, 3, len)]

\* One pass of the loop that writes the meta code lengths: the length is
\* stored in code_lens_ before it is written.
HuffMetaStep(buffer, idx, st) ==
  IF ~(kPermutations[idx + 1] < Len(st.code_lens)) THEN [st EXCEPT !.fin = "ub"]
  ELSE
  LET byte == buffer[st.index + 1]
      len == IF st.checked THEN byte % 16 ELSE byte \div 16
      st1 == [st EXCEPT !.index = IF st.checked THEN @ + 1 ELSE @,
                        !.checked = ~@,
                        !.code_lens[kPermutations[idx + 1] + 1] = len]
  IN
  IF ~CanWrite(st.bw, 3) THEN [st1 EXCEPT !.fin = "fail"]
  ELSE [st1 EXCEPT !.bw = WriteBits(st.bw, 3, len)]

RECURSIVE HuffMetaLoop(_, _, _, _)
HuffMetaLoop(buffer, idx, num_codes, st) ==
  IF ~(idx < num_codes) \/ st.fin # "run" THEN st
  ELSE HuffMetaLoop(buffer, idx + 1, num_codes, HuffMetaStep(buffer, idx, st))

HuffRet(ok, ub, error, t, index, bw, reached) ==
  [ok |-> ok, ub |-> ub, error |-> error, t |-> t, index |-> index, bw |-> bw,
   reached |-> reached]

\* BuildDynamicHuffmanTable(buffer, length, bw, error) on instance t0.
HuffBuildDynamicHuffmanTable(t0, buffer, length, bw0) ==
  Let(HuffResized(t0), LAMBDA t1 :
  IF ~(length >= 3) THEN HuffRet(FALSE, FALSE, kInsufficientInput, t1, 0, bw0, 0)
  ELSE
  LET num_lit_len == buffer[1] + 257
      num_distance == buffer[2] + 1
      num_codes == buffer[3] + 4
  IN
  \* Write the header.
  IF ~CanWrite(bw0, 5) THEN HuffRet(FALSE, FALSE, kInsufficientOutput, t1, 1, bw0, 0)
  ELSE
  Let(WriteBits(bw0, 5, buffer[1]), LAMBDA bw1 :
  IF ~CanWrite(bw1, 5) THEN HuffRet(FALSE, FALSE, kInsufficientOutput, t1, 2, bw1, 0)
  ELSE
  Let(WriteBits(bw1, 5, buffer[2]), LAMBDA bw2 :
  IF ~CanWrite(bw2, 4) THEN HuffRet(FALSE, FALSE, kInsufficientOutput, t1, 3, bw2, 0)
  ELSE
  Let(WriteBits(bw2, 4, buffer[3]), LAMBDA bw3 :
  IF ~CheckHuffmanArrayLengths(num_lit_len, num_distance, num_codes)
    THEN HuffRet(FALSE, FALSE, kInvalidInput, t1, 3, bw3, 0)
  ELSE IF ~(length - 3 >= (num_codes + 1) \div 2)
    THEN HuffRet(FALSE, FALSE, kInsufficientInput, t1, 3, bw3, 0)
  ELSE
  Let(HuffMetaLoop(buffer, 0, num_codes,
                   [fin |-> "run", index |-> 3, bw |-> bw3,
                    code_lens |-> t1.code_lens_, checked |-> FALSE]), LAMBDA m :
  IF m.fin = "ub" THEN HuffRet(FALSE, TRUE, kUnset, t1, m.index, m.bw, 0)
  ELSE IF m.fin = "fail"
    THEN HuffRet(FALSE, FALSE, kInsufficientOutput,
                 [t1 EXCEPT !.code_lens_ = m.code_lens], m.index, m.bw, 0)
  ELSE
  Let(IF m.checked THEN m.index + 1 ELSE m.index, LAMBDA index1 :
  Let(ZeroRestLoop(m.code_lens, num_codes), LAMBDA code_lens :
  Let(BuildHuffmanReverseCodes(code_lens, t1.code_rcodes_), LAMBDA rc :
  Let([t1 EXCEPT !.code_lens_ = code_lens, !.code_rcodes_ = rc.rcodes,
                 !.code_max_bits_ = rc.max_bits], LAMBDA t2 :
  IF ~rc.ok THEN HuffRet(FALSE, FALSE, kInvalidInput, t2, index1, m.bw, 1)
  ELSE
  \* Build literal/lengths Huffman code lengths and reverse codes.
  Let(HuffBuildHuffmanCodeLengths(t2, SubSeq(buffer, index1 + 1, length),
                                  length - index1, m.bw, num_lit_len), LAMBDA lit :
  Let([t2 EXCEPT !.lit_len_lens_ = lit.lens], LAMBDA t3 :
  Let(index1 + lit.index, LAMBDA index2 :
  IF lit.fin = "ub" THEN HuffRet(FALSE, TRUE, kUnset, t3, index2, lit.bw, 1)
  ELSE IF lit.fin # "ok" THEN HuffRet(FALSE, FALSE, lit.error, t3, index2, lit.bw, 1)
  ELSE
  Let(BuildHuffmanReverseCodes(lit.lens, t3.lit_len_rcodes_), LAMBDA rl :
  Let([t3 EXCEPT !.lit_len_rcodes_ = rl.rcodes, !.lit_len_max_bits_ = rl.max_bits],
      LAMBDA t4 :
  IF ~rl.ok THEN HuffRet(FALSE, FALSE, kInvalidInput, t4, index2, lit.bw, 2)
  ELSE
  \* Build distance Huffman code lengths array and reverse codes.
  Let(HuffBuildHuffmanCodeLengths(t4, SubSeq(buffer, index2 + 1, length),
                                  length - index2, lit.bw, num_distance), LAMBDA dist :
  Let([t4 EXCEPT !.distance_lens_ = dist.lens], LAMBDA t5 :
  Let(index2 + dist.index, LAMBDA index3 :
  IF dist.fin = "ub" THEN HuffRet(FALSE, TRUE, kUnset, t5, index3, dist.bw, 2)
  ELSE IF dist.fin # "ok"
    THEN HuffRet(FALSE, FALSE, dist.error, t5, index3, dist.bw, 2)
  ELSE
  Let(BuildHuffmanReverseCodes(dist.lens, t5.distance_rcodes_), LAMBDA rd :
  Let([t5 EXCEPT !.distance_rcodes_ = rd.rcodes, !.distance_max_bits_ = rd.max_bits],
      LAMBDA t6 :
  IF ~rd.ok THEN HuffRet(FALSE, FALSE, kInvalidInput, t6, index3, dist.bw, 3)
  ELSE IF ~(length = index3)
    THEN HuffRet(FALSE, FALSE, kInvalidInput, t6, index3, dist.bw, 3)
  ELSE HuffRet(TRUE, FALSE, kUnset, t6, index3, dist.bw, 3))))))))))))))))))))

----------------------------------------------------------------------------
(* BuildFixedHuffmanTable.                                                 *)

\* The lengths the four while loops store: 8 for symbols 0..143, 9 for
\* 144..255, 7 for 256..279, 8 for 280..287; 5 for the 30 distance symbols.
FixedLitLenLens == Copies(144, 8) \o Copies(112, 9) \o Copies(24, 7) \o Copies(8, 8)

FixedDistanceLens == Copies(30, 5)

\* lens with its first Len(d) elements replaced by d.
SeqWithPrefix(lens, d) ==
  IF Len(lens) > Len(d) THEN d \o SubSeq(lens, Len(d) + 1, Len(lens)) ELSE d

\* The guard of BuildFixedHuffmanTable: initialized_ is the flag that
\* BuildDynamicHuffmanTable sets too.
FixedIsBuilt(t) == t.initialized_

\* BuildFixedHuffmanTable() on instance t0: the return value and the instance.
BuildFixedHuffmanTable(t0) ==
  IF FixedIsBuilt(t0) THEN [ok |-> TRUE, ub |-> FALSE, t |-> t0]
  ELSE
  Let([t0 EXCEPT
         !.lit_len_lens_ = SeqWithPrefix(ResizeSeq(@, 288), FixedLitLenLens),
         !.lit_len_rcodes_ = ResizeVec(@, 288),
         !.lit_len_hcodes_ = ResizeVec(@, Pow2(9)),
         !.distance_lens_ = SeqWithPrefix(ResizeSeq(@, 30), FixedDistanceLens),
         !.distance_rcodes_ = ResizeVec(@, 30),
         !.distance_hcodes_ = ResizeVec(@, Pow2(5))], LAMBDA t1 :
  Let(BuildHuffmanCodes(t1.lit_len_lens_, t1.lit_len_hcodes_), LAMBDA bl :
  Let([t1 EXCEPT !.lit_len_hcodes_ = bl.hcodes, !.lit_len_max_bits_ = bl.max_bits],
      LAMBDA t2 :
  IF ~bl.ok THEN [ok |-> FALSE, ub |-> FALSE, t |-> t2]
  ELSE IF bl.oob THEN [ok |-> FALSE, ub |-> TRUE, t |-> t2]
  ELSE
  Let(BuildHuffmanCodes(t2.distance_lens_, t2.distance_hcodes_), LAMBDA bd :
  Let([t2 EXCEPT !.distance_hcodes_ = bd.hcodes, !.distance_max_bits_ = bd.max_bits],
      LAMBDA t3 :
  IF ~bd.ok THEN [ok |-> FALSE, ub |-> FALSE, t |-> t3]
  ELSE IF bd.oob THEN [ok |-> FALSE, ub |-> TRUE, t |-> t3]
  ELSE
  Let(BuildHuffmanReverseCodes(t3.lit_len_lens_, t3.lit_len_rcodes_), LAMBDA rl :
  Let([t3 EXCEPT !.lit_len_rcodes_ = rl.rcodes, !.lit_len_max_bits_ = rl.max_bits],
      LAMBDA t4 :
  IF ~rl.ok THEN [ok |-> FALSE, ub |-> FALSE, t |-> t4]
  ELSE
  Let(BuildHuffmanReverseCodes(t4.distance_lens_, t4.distance_rcodes_), LAMBDA rd :
  Let([t4 EXCEPT !.distance_rcodes_ = rd.rcodes, !.distance_max_bits_ = rd.max_bits],
      LAMBDA t5 :
  IF ~rd.ok THEN [ok |-> FALSE, ub |-> FALSE, t |-> t5]
  ELSE [ok |-> TRUE, ub |-> FALSE, t |-> [t5 EXCEPT !.initialized_ = TRUE]])))))))))

----------------------------------------------------------------------------
(* SpecCodes: the table builders as functions of their arguments.  One     *)
(* code-length array, a forward table as large as the dynamic tables and a *)
(* reverse table, both holding what an earlier build left, are drawn; then *)
(* one builder runs.                                                       *)

RECURSIVE SeqsUpTo(_, _)
SeqsUpTo(S, n) ==
  IF n = 0 THEN {<<>>}
  ELSE LET shorter == SeqsUpTo(S, n - 1) IN
       shorter \cup {Append(s, x) : s \in {t \in shorter : Len(t) = n - 1}, x \in S}

LensInputs == SeqsUpTo(0..MaxCodeLen, MaxSyms)

\* The array whose build fills every slot of a table of MaxCodeLen bits.
FullLens == [i \in 1..Pow2(MaxCodeLen) |-> MaxCodeLen]

HcodesInputs ==
  {NewVec(Pow2(kMaxHuffmanBits)),
   BuildHuffmanCodes(FullLens, NewVec(Pow2(kMaxHuffmanBits))).hcodes}

RcodesInputs ==
  {NewVec(Len(kPermutations)),
   BuildHuffmanReverseCodes(FullLens, NewVec(Len(kPermutations))).rcodes}

InitCodes ==
  /\ ht = NewTable
  /\ inp \in [lens : LensInputs, hcodes : HcodesInputs, rcodes : RcodesInputs]
  /\ ret = NoRet
  /\ pc = "start"

CallInitHuffmanCodes ==
  /\ pc = "start"
  /\ ret' = [op |-> "InitHuffmanCodes"] @@ InitHuffmanCodes(inp.lens)
  /\ pc' = "done"
  /\ UNCHANGED <<ht, inp>>

CallBuildHuffmanCodes ==
  /\ pc = "start"
  /\ ret' = [op |-> "BuildHuffmanCodes"] @@ BuildHuffmanCodes(inp.lens, inp.hcodes)
  /\ pc' = "done"
  /\ UNCHANGED <<ht, inp>>

CallBuildHuffmanReverseCodes ==
  /\ pc = "start"
  /\ ret' = [op |-> "BuildHuffmanReverseCodes"]
              @@ BuildHuffmanReverseCodes(inp.lens, inp.rcodes)
  /\ pc' = "done"
  /\ UNCHANGED <<ht, inp>>

NextCodes ==
  \/ CallInitHuffmanCodes
  \/ CallBuildHuffmanCodes
  \/ CallBuildHuffmanReverseCodes

SpecCodes == InitCodes /\ [][NextCodes]_vars

----------------------------------------------------------------------------
(* SpecLens: BuildHuffmanCodeLengths in both directions as a function of   *)
(* its arguments, on a table whose meta code BuildDynamicHuffmanTable has  *)
(* just built.  The lens argument is lit_len_lens_.                        *)

\* The 19-entry code_lens_ that gives symbol s the length f[s].
MetaOf(f) == [i \in 1..Len(kPermutations) |->
                IF (i - 1) \in DOMAIN f THEN f[i - 1] ELSE 0]

\* A complete code over one length and the three run markers; an incomplete
\* code; a code the per-length check accepts although its Kraft sum is 5/4.
MetaInputs ==
  {MetaOf(1 :> 2 @@ 16 :> 2 @@ 17 :> 2 @@ 18 :> 2),
   MetaOf(3 :> 2 @@ 16 :> 1),
   MetaOf(1 :> 2 @@ 16 :> 1 @@ 17 :> 1)}

\* The instance as lines 222-290 leave it: the vectors sized by the bits to
\* puff direction and the meta forward table built from code_lens_ = meta.
PuffPrepared(meta) ==
  LET b == BuildHuffmanCodes(meta, NewVec(Pow2(7))) IN
  [NewTable EXCEPT
     !.initialized_ = TRUE, !.code_lens_ = meta, !.code_hcodes_ = b.hcodes,
     !.code_max_bits_ = b.max_bits,
     !.lit_len_lens_ = Zeros(286), !.lit_len_hcodes_ = NewVec(Pow2(15)),
     !.distance_lens_ = Zeros(30), !.distance_hcodes_ = NewVec(Pow2(15))]

\* The instance as lines 405-463 leave it: the vectors sized by the puff to
\* bits direction and the meta reverse table built from code_lens_ = meta.
HuffPrepared(meta) ==
  LET b == BuildHuffmanReverseCodes(meta, NewVec(19)) IN
  [NewTable EXCEPT
     !.initialized_ = TRUE, !.code_lens_ = meta, !.code_rcodes_ = b.rcodes,
     !.code_max_bits_ = b.max_bits,
     !.lit_len_lens_ = Zeros(286), !.lit_len_rcodes_ = NewVec(286),
     !.distance_lens_ = Zeros(30), !.distance_rcodes_ = NewVec(30)]

\* The requested numbers of code lengths (any size_t is a legal argument).
NumCodesInputs == {1, 5}

\* The room in the puff buffer, in bytes, and in the writer, in bits.
PuffRoomInputs == {0, 16}
WriterRoomInputs == {1, 64}

\* The puff values drawn: a length, and the ends of the ranges 16..19, 20..27
\* and 28..155, and values past them.
PuffValueInputs == {1, 16, 19, 20, 27, 155, 156}

InitLens ==
  /\ \E meta \in MetaInputs, num_codes \in NumCodesInputs :
       \/ /\ ht = PuffPrepared(meta)
          /\ \E bits \in SeqsUpTo({0, 1}, MaxInBits), length \in PuffRoomInputs :
               inp = [dir |-> "puff", bits |-> bits, length |-> length,
                      num_codes |-> num_codes, buffer |-> <<>>, cap |-> 0]
       \/ /\ ht = HuffPrepared(meta)
          /\ \E buffer \in SeqsUpTo(PuffValueInputs, MaxPuffLen),
                cap \in WriterRoomInputs :
               inp = [dir |-> "huff", bits |-> <<>>, length |-> Len(buffer),
                      num_codes |-> num_codes, buffer |-> buffer, cap |-> cap]
  /\ ret = NoRet
  /\ pc = "start"

CallPuffBuildHuffmanCodeLengths ==
  /\ pc = "start" /\ inp.dir = "puff"
  /\ LET r == PuffBuildHuffmanCodeLengths(ht, inp.bits, 0, inp.length,
                                          ht.code_max_bits_, inp.num_codes)
     IN /\ ret' = [op |-> "PuffBuildHuffmanCodeLengths"] @@ r
        /\ ht' = [ht EXCEPT !.lit_len_lens_ = r.lens]
  /\ pc' = "done"
  /\ UNCHANGED inp

CallHuffBuildHuffmanCodeLengths ==
  /\ pc = "start" /\ inp.dir = "huff"
  /\ LET r == HuffBuildHuffmanCodeLengths(ht, inp.buffer, inp.length,
                                          NewWriter(inp.cap), inp.num_codes)
     IN /\ ret' = [op |-> "HuffBuildHuffmanCodeLengths"] @@ r
        /\ ht' = [ht EXCEPT !.lit_len_lens_ = r.lens]
  /\ pc' = "done"
  /\ UNCHANGED inp

NextLens ==
  \/ CallPuffBuildHuffmanCodeLengths
  \/ CallHuffBuildHuffmanCodeLengths

SpecLens == InitLens /\ [][NextLens]_vars

----------------------------------------------------------------------------
(* SpecDyn: a dynamic header transcoded to puff form by one instance and   *)
(* the bytes it wrote transcoded back by a fresh instance, as the puffer   *)
(* and the huffer do.  The input is the header fields, the meta code       *)
(* lengths, a code-length sequence put together from a few symbols, and    *)
(* bits of block data after the header.                                    *)

\* The most symbols drawn freely at the head of the code-length sequence.
MaxChunks == 2

RECURSIVE ConcatSeqs(_)
ConcatSeqs(ss) == IF Len(ss) = 0 THEN <<>> ELSE ss[1] \o ConcatSeqs(Tail(ss))

\* HLIT, HDIST, HCLEN and the first HCLEN + 4 meta code lengths in
\* transmission order, as the bits of a deflate stream.
HeaderBits(h) ==
  BitsOf(5, h.hlit) \o BitsOf(5, h.hdist) \o BitsOf(4, h.hclen)
    \o ConcatSeqs([idx \in 1..(h.hclen + 4) |->
                     BitsOf(3, h.meta[kPermutations[idx] + 1])])

\* The meta code the symbols below are written in: 0 is 00, 18 is 01, 1 is
\* 100, 2 is 101, 16 is 110 and 17 is 111.
MetaA == MetaOf(0 :> 2 @@ 18 :> 2 @@ 1 :> 3 @@ 2 :> 3 @@ 16 :> 3 @@ 17 :> 3)

\* The headers every code-length sequence is drawn with: 257 literal/length
\* codes under MetaA; 19 meta lengths (an odd number) with codes of four
\* bits; four meta lengths.
BodyHeaderInputs ==
  {[hlit |-> 0, hdist |-> 1, hclen |-> 14, meta |-> MetaA],
   [hlit |-> 0, hdist |-> 1, hclen |-> 15,
    meta |-> MetaOf(0 :> 2 @@ 18 :> 2 @@ 1 :> 3 @@ 2 :> 3 @@ 16 :> 3
                      @@ 17 :> 4 @@ 3 :> 4)],
   [hlit |-> 0, hdist |-> 0, hclen |-> 0, meta |-> MetaOf(0 :> 1 @@ 18 :> 1)]}

\* The headers drawn: those, and 259 literal/length codes; HLIT out of range;
\* a meta array whose Kraft sum is 5/4; a meta array with three codes of one
\* bit.
HeaderInputs ==
  BodyHeaderInputs \cup
  {[hlit |-> 2, hdist |-> 0, hclen |-> 14, meta |-> MetaA],
   [hlit |-> 30, hdist |-> 0, hclen |-> 14, meta |-> MetaA],
   [hlit |-> 0, hdist |-> 0, hclen |-> 14,
    meta |-> MetaOf(0 :> 1 @@ 18 :> 1 @@ 1 :> 2)],
   [hlit |-> 0, hdist |-> 1, hclen |-> 14,
    meta |-> MetaOf(0 :> 1 @@ 1 :> 1 @@ 18 :> 1)]}

\* Symbols of a code-length sequence under MetaA: the lengths 0, 1, 2, a copy
\* of the previous length, a run of 3 to 10 zeros and one of 11 to 138.
Sym0 == <<0, 0>>
Sym1 == <<1, 0, 0>>
Sym2 == <<1, 0, 1>>
Sym16(extra) == <<1, 1, 0>> \o BitsOf(2, extra)
Sym17(extra) == <<1, 1, 1>> \o BitsOf(3, extra)
Sym18(extra) == <<0, 1>> \o BitsOf(7, extra)

HeadChunks == {Sym0, Sym1, Sym2, Sym16(0), Sym17(0)}

\* Runs of zeros that fill up the literal/length array: none, or 138 and 119.
FillInputs == {<<>>, Sym18(127) \o Sym18(108)}

\* The distance lengths.
TailInputs == {<<>>, Sym1 \o Sym1, Sym1 \o Sym16(0), Sym16(0)}

\* Block data after the header.
TrailerInputs == {<<>>, <<1, 0, 1, 1>>}

\* The room in the puff buffer, in bytes: too little for 18 meta lengths, and
\* enough for every header drawn.
DynRoomInputs == {11, 64}

\* The sequences that start with freely drawn symbols come with the headers
\* of BodyHeaderInputs and the larger buffer, the others with every header
\* and both buffers.
InitDyn ==
  /\ ht = NewTable
  /\ \E h \in HeaderInputs, head \in SeqsUpTo(HeadChunks, MaxChunks),
        fill \in FillInputs, tail \in TailInputs, trailer \in TrailerInputs,
        length \in DynRoomInputs :
       /\ head = <<>> \/ (h \in BodyHeaderInputs /\ length = 64)
       /\ inp = [bits |-> HeaderBits(h) \o ConcatSeqs(head) \o fill \o tail
                            \o trailer,
                 length |-> length]
  /\ ret = NoRet
  /\ pc = "start"

\* The puffer's instance transcodes the header.
CallPuffBuildDynamicHuffmanTable ==
  /\ pc = "start"
  /\ LET r == PuffBuildDynamicHuffmanTable(ht, inp.bits, inp.length)
     IN /\ ret' = [op |-> "PuffBuildDynamicHuffmanTable"] @@ r
        /\ ht' = r.t
  /\ pc' = "puffed"
  /\ UNCHANGED inp

\* The huffer's instance, a fresh one, transcodes the bytes the first call
\* wrote into a writer of 20 bits or of as many bits as the first call read.
CallHuffBuildDynamicHuffmanTable ==
  /\ pc = "puffed"
  /\ \E cap \in {20, ret.pos} :
       LET r == HuffBuildDynamicHuffmanTable(NewTable, ret.out, Len(ret.out),
                                             NewWriter(cap))
       IN /\ ret' = [op |-> "HuffBuildDynamicHuffmanTable", first |-> ret,
                      cap |-> cap] @@ r
          /\ ht' = r.t
  /\ pc' = "done"
  /\ UNCHANGED inp

NextDyn ==
  \/ CallPuffBuildDynamicHuffmanTable
  \/ CallHuffBuildDynamicHuffmanTable

SpecDyn == InitDyn /\ [][NextDyn]_vars

----------------------------------------------------------------------------
(* SpecTable: one HuffmanTable instance and the Build* calls made on it,   *)
(* in any order and number.  A call that reads or writes a vector past its *)
(* end has undefined behaviour: what the instance holds and what any later *)
(* call does is then not determined, and the model stops there             *)
(* (pc = "undefined").                                                     *)

\* Headers of deflate blocks: none, one with HLIT out of range, one whose
\* codes all have length 0 and one with two literal/length and two distance
\* codes of one bit.
TableBitsInputs ==
  {<<>>,
   HeaderBits([hlit |-> 30, hdist |-> 0, hclen |-> 14, meta |-> MetaA]),
   HeaderBits([hlit |-> 0, hdist |-> 0, hclen |-> 0,
               meta |-> MetaOf(0 :> 1 @@ 18 :> 1)])
     \o <<1>> \o BitsOf(7, 127) \o <<1>> \o BitsOf(7, 108) \o <<0>>,
   HeaderBits([hlit |-> 0, hdist |-> 1, hclen |-> 14, meta |-> MetaA])
     \o Sym1 \o Sym1 \o Sym18(127) \o Sym18(108) \o Sym1 \o Sym1}

\* The room in the puff buffer, in bytes, and in the writer, in bits.
TableRoomInputs == {2, 64}
TableWriterInputs == {20, 128}

\* Puff headers: what a fresh instance makes of those blocks.
TablePuffInputs ==
  {PuffBuildDynamicHuffmanTable(NewTable, bits, 64).out : bits \in TableBitsInputs}

InitTable ==
  /\ ht = NewTable
  /\ inp = NoRet
  /\ ret = NoRet
  /\ pc = "ready"

TableBuildFixedHuffmanTable ==
  /\ pc = "ready"
  /\ LET r == BuildFixedHuffmanTable(ht)
     IN /\ ret' = [op |-> "BuildFixedHuffmanTable", ok |-> r.ok, ub |-> r.ub]
        /\ ht' = r.t
        /\ pc' = IF r.ub THEN "undefined" ELSE "ready"
  /\ inp' = [op |-> "BuildFixedHuffmanTable"]

TablePuffBuildDynamicHuffmanTable ==
  /\ pc = "ready"
  /\ \E bits \in TableBitsInputs, length \in TableRoomInputs :
       LET r == PuffBuildDynamicHuffmanTable(ht, bits, length)
       IN /\ ret' = [op |-> "PuffBuildDynamicHuffmanTable", ok |-> r.ok,
                     ub |-> r.ub, error |-> r.error]
          /\ ht' = r.t
          /\ pc' = IF r.ub THEN "undefined" ELSE "ready"
          /\ inp' = [op |-> "PuffBuildDynamicHuffmanTable", bits |-> bits,
                     length |-> length]

TableHuffBuildDynamicHuffmanTable ==
  /\ pc = "ready"
  /\ \E buffer \in TablePuffInputs, cap \in TableWriterInputs :
       LET r == HuffBuildDynamicHuffmanTable(ht, buffer, Len(buffer), NewWriter(cap))
       IN /\ ret' = [op |-> "HuffBuildDynamicHuffmanTable", ok |-> r.ok,
                     ub |-> r.ub, error |-> r.error]
          /\ ht' = r.t
          /\ pc' = IF r.ub THEN "undefined" ELSE "ready"
          /\ inp' = [op |-> "HuffBuildDynamicHuffmanTable", buffer |-> buffer,
                     cap |-> cap]

NextTable ==
  \/ TableBuildFixedHuffmanTable
  \/ TablePuffBuildDynamicHuffmanTable
  \/ TableHuffBuildDynamicHuffmanTable

SpecTable == InitTable /\ [][NextTable]_vars

----------------------------------------------------------------------------
(* Reference definitions the properties are stated with.                   *)

RECURSIVE SumSeq(_)
SumSeq(s) == IF Len(s) = 0 THEN 0 ELSE s[1] + SumSeq(Tail(s))

\* The Kraft sum of lens, the sum of 2^-len over the nonzero lengths, scaled
\* by 2^kMaxHuffmanBits to stay in the integers.
KraftScaled(lens) ==
  SumSeq([L \in 1..kMaxHuffmanBits |->
            Cardinality({i \in DOMAIN lens : lens[i] = L})
              * Pow2(kMaxHuffmanBits - L)])

KraftOne == Pow2(kMaxHuffmanBits)

\* The largest length present in lens, 0 when there is none.
LargestLen(lens) ==
  IF \A i \in DOMAIN lens : lens[i] = 0 THEN 0
  ELSE CHOOSE l \in 1..kMaxHuffmanBits :
         /\ \E i \in DOMAIN lens : lens[i] = l
         /\ \A i \in DOMAIN lens : lens[i] <= l

\* How many symbols of lens have length L.
CountOfLen(lens, L) == Cardinality({i \in DOMAIN lens : lens[i] = L})

\* Some length L in 1..15 is carried by more than 2^L symbols.
PerLengthOversubscribed(lens) ==
  \E L \in 1..kMaxHuffmanBits : CountOfLen(lens, L) > Pow2(L)

\* RFC 1951's first code of length L, over the integers.
RECURSIVE RefNextCode(_, _)
RefNextCode(lens, L) ==
  IF L = 0 THEN 0
  ELSE (RefNextCode(lens, L - 1)
          + (IF L - 1 = 0 THEN 0 ELSE CountOfLen(lens, L - 1))) * 2

\* The canonical code of symbol s: the first code of its length plus the number
\* of lower symbols of that length.
RefCanonical(lens, s) ==
  RefNextCode(lens, lens[s + 1])
    + Cardinality({t \in 0..(s - 1) : lens[t + 1] = lens[s + 1]})

\* Bit b of v.
BitOf(v, b) == (v \div Pow2(b)) % 2

\* The low L bits of v, bit b moved to bit L - 1 - b.
RefReversed(v, L) ==
  SumSeq([k \in 1..L |-> BitOf(v, k - 1) * Pow2(L - k)])

\* The symbols of lens that have a code.
Coded(lens) == {s \in 0..(Len(lens) - 1) : lens[s + 1] > 0}

----------------------------------------------------------------------------
(* Properties of the table builders (SpecCodes).                           *)

\* C3 as claimed: in any forward table BuildHuffmanCodes built successfully,
\* every index below 2^max_bits whose low lens[s] bits are the bit-reversed
\* canonical code of a coded symbol s holds s with the valid bit set.
C3_ForwardDecodesEveryCode ==
  (ret.op = "BuildHuffmanCodes" /\ ret.ok) =>
    \A s \in Coded(inp.lens) : \A i \in 0..(Pow2(ret.max_bits) - 1) :
      (i % Pow2(inp.lens[s + 1])
         = RefReversed(RefCanonical(inp.lens, s), inp.lens[s + 1]))
        => VecAt(ret.hcodes, i) = s + kValidBit

\* Lemma (C3 restricted to arrays that satisfy the Kraft inequality): the
\* forward table of a prefix code returns every symbol at every index that
\* ends in its code.
ForwardDecodesPrefixCodes ==
  (ret.op = "BuildHuffmanCodes" /\ ret.ok /\ KraftScaled(inp.lens) <= KraftOne) =>
    \A s \in Coded(inp.lens) : \A i \in 0..(Pow2(ret.max_bits) - 1) :
      (i % Pow2(inp.lens[s + 1])
         = RefReversed(RefCanonical(inp.lens, s), inp.lens[s + 1]))
        => VecAt(ret.hcodes, i) = s + kValidBit

\* C4 as claimed: InitHuffmanCodes returns false on every array whose Kraft
\* sum exceeds 1.
C4_KraftViolatorsRejected ==
  (ret.op = "InitHuffmanCodes" /\ KraftScaled(inp.lens) > KraftOne) => ~ret.ok

\* C5: on every array whose Kraft sum is at most 1, InitHuffmanCodes returns
\* true and sets max_bits to the largest length present.
C5_KraftSatisfiersAccepted ==
  (ret.op = "InitHuffmanCodes" /\ KraftScaled(inp.lens) <= KraftOne) =>
    ret.ok /\ ret.max_bits = LargestLen(inp.lens)

\* C5's case: an incomplete code (Kraft sum below 1) of two different lengths
\* was accepted.
C5_Witness ==
  /\ ret.op = "InitHuffmanCodes" /\ ret.ok
  /\ KraftScaled(inp.lens) < KraftOne
  /\ \E i, j \in DOMAIN inp.lens : 0 < inp.lens[i] /\ inp.lens[i] < inp.lens[j]

\* C8: for every accepted array the pairs are the coded symbols in ascending
\* order, each with its canonical code (first code of its length plus its rank
\* among the symbols of that length) bit-reversed within its length.
C8_CanonicalAssignment ==
  (ret.op = "InitHuffmanCodes" /\ ret.ok) =>
    /\ Len(ret.pairs) = Cardinality(Coded(inp.lens))
    /\ \A k \in 1..Len(ret.pairs) :
         /\ ret.pairs[k].index \in Coded(inp.lens)
         /\ k > 1 => ret.pairs[k - 1].index < ret.pairs[k].index
         /\ ret.pairs[k].code
              = RefReversed(RefCanonical(inp.lens, ret.pairs[k].index),
                            inp.lens[ret.pairs[k].index + 1])

\* C8's case: an accepted array with two symbols of one length, a symbol of
\* another length and a symbol without a code.
C8_Witness ==
  /\ ret.op = "InitHuffmanCodes" /\ ret.ok
  /\ \E i, j, k, z \in DOMAIN inp.lens :
       /\ i < j /\ inp.lens[i] = inp.lens[j] /\ inp.lens[i] > 1
       /\ inp.lens[k] > 0 /\ inp.lens[k] # inp.lens[i]
       /\ inp.lens[z] = 0

\* The array has no nonzero length.
AllZero(lens) == \A i \in DOMAIN lens : lens[i] = 0

\* C11 as claimed: for an array whose entries are all 0, the three builders
\* return true with max_bits 0, InitHuffmanCodes gives no symbol a code, every
\* entry of the reverse table is 0 and no entry of the forward table has the
\* valid bit set.
C11_AllZeroArrayLeavesNoValidEntry ==
  (pc = "done" /\ AllZero(inp.lens)) =>
    /\ ret.ok /\ ret.max_bits = 0
    /\ ret.op = "InitHuffmanCodes" => ret.pairs = <<>>
    /\ ret.op = "BuildHuffmanReverseCodes" =>
         \A i \in 0..(ret.rcodes.size - 1) : VecAt(ret.rcodes, i) = 0
    /\ ret.op = "BuildHuffmanCodes" =>
         \A i \in 0..(Len(ret.hcodes.data) - 1) : ~IsValid(VecAt(ret.hcodes, i))

\* C11, amended: for an array whose entries are all 0, the three builders
\* return true with max_bits 0, InitHuffmanCodes gives no symbol a code, every
\* entry of the reverse table is 0, and of the forward table the entries below
\* 2^max_bits, which is entry 0 alone, are 0 while every other entry is what
\* the table held before the call.
C11_AllZeroArrayClearsUsedEntries ==
  (pc = "done" /\ AllZero(inp.lens)) =>
    /\ ret.ok /\ ret.max_bits = 0
    /\ ret.op = "InitHuffmanCodes" => ret.pairs = <<>>
    /\ ret.op = "BuildHuffmanReverseCodes" =>
         /\ ret.rcodes.size = inp.rcodes.size
         /\ \A i \in 0..(ret.rcodes.size - 1) : VecAt(ret.rcodes, i) = 0
    /\ ret.op = "BuildHuffmanCodes" =>
         /\ ~ret.oob
         /\ ret.hcodes.size = inp.hcodes.size
         /\ \A i \in 0..(Pow2(ret.max_bits) - 1) : VecAt(ret.hcodes, i) = 0
         /\ \A i \in Pow2(ret.max_bits)..Max(Len(inp.hcodes.data), Len(ret.hcodes.data)) :
              VecAt(ret.hcodes, i) = VecAt(inp.hcodes, i)

\* C11's case: BuildHuffmanCodes has run on an array of zeros and a forward
\* table that an earlier build had filled.
C11_Witness ==
  /\ pc = "done" /\ ret.op = "BuildHuffmanCodes" /\ ret.ok
  /\ Len(inp.lens) > 1 /\ AllZero(inp.lens)
  /\ IsValid(VecAt(inp.hcodes, 0)) /\ IsValid(VecAt(inp.hcodes, 1))

\* C11's case for the reverse table: one that held codes is all zeros after
\* the call.
C11_WitnessReverse ==
  /\ pc = "done" /\ ret.op = "BuildHuffmanReverseCodes" /\ ret.ok
  /\ Len(inp.lens) > 1 /\ AllZero(inp.lens)
  /\ inp.rcodes.data # <<>> /\ ret.rcodes.data = <<>>

----------------------------------------------------------------------------
(* Properties of BuildHuffmanCodeLengths (SpecLens).                       *)

RECURSIVE ConcatAll(_)
ConcatAll(ss) == IF Len(ss) = 0 THEN <<>> ELSE ss[1] \o ConcatAll(Tail(ss))

\* The lengths appended by the steps before step k, and the last of them.
AppendedBefore(steps, k) ==
  ConcatAll([j \in 1..(k - 1) |-> steps[j].appended])
PrevLen(steps, k) ==
  LET before == AppendedBefore(steps, k) IN before[Len(before)]

\* The bits to puff call found code 16 as its first symbol.
PuffFirstIs16 ==
  /\ ret.op = "PuffBuildHuffmanCodeLengths"
  /\ CacheBits(inp.bits, 0, ht.code_max_bits_)
  /\ LET ca == CodeAlphabet(ht, ReadBits(inp.bits, 0, ht.code_max_bits_))
     IN ca.ok /\ ca.alphabet = 16

\* The puff to bits call found a puff value of code 16 as its first byte.
HuffFirstIs16 ==
  /\ ret.op = "HuffBuildHuffmanCodeLengths"
  /\ inp.length >= 1 /\ inp.buffer[1] \in 16..19

\* C7 as claimed: a sequence whose first symbol is code 16 makes the call, in
\* either direction, fail with kInvalidInput and append nothing to lens.
C7_Leading16IsInvalidInput ==
  (PuffFirstIs16 \/ HuffFirstIs16) =>
    ret.fin = "fail" /\ ret.error = kInvalidInput /\ ret.lens = <<>>

\* C7 amended: such a call fails and appends nothing to lens; its error is
\* kInvalidInput unless the output has no room for the symbol (no byte left in
\* the puff buffer; fewer bits left in the writer than the code of 16 has),
\* which is found first and reported as kInsufficientOutput.
C7_Leading16Fails ==
  /\ PuffFirstIs16 =>
       /\ ret.fin = "fail" /\ ret.lens = <<>> /\ ht.lit_len_lens_ = <<>>
       /\ ret.error = IF inp.length = 0 THEN kInsufficientOutput ELSE kInvalidInput
  /\ HuffFirstIs16 =>
       /\ ret.fin = "fail" /\ ret.lens = <<>> /\ ht.lit_len_lens_ = <<>>
       /\ ret.error = IF inp.cap < ht.code_lens_[16 + 1] THEN kInsufficientOutput
                      ELSE kInvalidInput

\* C7's case: both kinds of call were made on a leading 16 with room in the
\* output; this is the bits to puff one.
C7_Witness ==
  PuffFirstIs16 /\ inp.length > 0 /\ ret.fin = "fail" /\ Len(inp.bits) > 3

\* One step of the bits to puff direction obeys the biased encoding: sp.code
\* was decoded at bit sp.at, the extra bits follow its sp.nbits bits.
PuffStepBiased(steps, k) ==
  LET sp == steps[k]
      e2 == ReadBits(inp.bits, sp.at + sp.nbits, 2)
      e3 == ReadBits(inp.bits, sp.at + sp.nbits, 3)
      e7 == ReadBits(inp.bits, sp.at + sp.nbits, 7)
  IN \/ sp.code < 16 /\ sp.pcode = sp.code /\ sp.appended = <<sp.code>>
     \/ /\ sp.code = 16 /\ sp.pcode = 16 + e2
        /\ sp.appended = [i \in 1..(3 + e2) |-> PrevLen(steps, k)]
     \/ /\ sp.code = 17 /\ sp.pcode = 20 + e3
        /\ sp.appended = [i \in 1..(3 + e3) |-> 0]
     \/ /\ sp.code = 18 /\ sp.pcode = 28 + e7
        /\ sp.appended = [i \in 1..(11 + e7) |-> 0]

\* One step of the puff to bits direction inverts it.
HuffStepBiased(steps, k) ==
  LET sp == steps[k] IN
     \/ /\ sp.pcode \in 0..15 /\ sp.code = sp.pcode /\ sp.appended = <<sp.pcode>>
     \/ /\ sp.pcode \in 16..19 /\ sp.code = 16 /\ sp.extra = sp.pcode - 16
        /\ sp.appended = [i \in 1..(3 + sp.extra) |-> PrevLen(steps, k)]
     \/ /\ sp.pcode \in 20..27 /\ sp.code = 17 /\ sp.extra = sp.pcode - 20
        /\ sp.appended = [i \in 1..(3 + sp.extra) |-> 0]
     \/ /\ sp.pcode \in 28..155 /\ sp.code = 18 /\ sp.extra = sp.pcode - 28
        /\ sp.appended = [i \in 1..(11 + sp.extra) |-> 0]

\* The bits a step of the puff to bits direction writes: the code of the
\* symbol, then the 2, 3 or 7 extra bits of a run marker.
HuffStepBits(sp) ==
  BitsOf(sp.nbits, sp.huffman)
    \o (IF sp.code = 16 THEN BitsOf(2, sp.extra)
        ELSE IF sp.code = 17 THEN BitsOf(3, sp.extra)
        ELSE IF sp.code = 18 THEN BitsOf(7, sp.extra)
        ELSE <<>>)

\* C9: every symbol the bits to puff direction decodes is emitted and expanded
\* by the biased encoding (c < 16: c; 16: 16 + e, 3 + e copies of the previous
\* length; 17: 20 + e, 3 + e zeros; 18: 28 + e, 11 + e zeros), the bytes
\* written and lens being those of the steps; the puff to bits direction maps
\* 0..15, 16..19, 20..27, 28..155 back to the same code, extra bits and
\* lengths, writes them, and rejects a value above 155 with kInvalidInput.
C9_BiasedRunLengthMarkers ==
  /\ ret.op = "PuffBuildHuffmanCodeLengths" =>
       /\ \A k \in 1..Len(ret.steps) : PuffStepBiased(ret.steps, k)
       /\ ret.out = [k \in 1..Len(ret.steps) |-> ret.steps[k].pcode]
       /\ ret.lens = AppendedBefore(ret.steps, Len(ret.steps) + 1)
  /\ ret.op = "HuffBuildHuffmanCodeLengths" =>
       /\ \A k \in 1..Len(ret.steps) : HuffStepBiased(ret.steps, k)
       /\ \A k \in 1..Len(ret.steps) : ret.steps[k].pcode = inp.buffer[k]
       /\ ret.lens = AppendedBefore(ret.steps, Len(ret.steps) + 1)
       /\ ret.fin = "ok" =>
            /\ Len(ret.steps) = ret.index
            /\ ret.bw.bits
                 = ConcatAll([k \in 1..Len(ret.steps) |-> HuffStepBits(ret.steps[k])])
       /\ (ret.index >= 1 /\ inp.buffer[ret.index] > 155) =>
            ret.fin = "fail" /\ ret.error = kInvalidInput
       /\ \A i \in 1..(ret.index - 1) : inp.buffer[i] <= 155

\* C9's case: the bits to puff direction succeeded on a length followed by a
\* code 16 with nonzero extra bits.
C9_Witness ==
  /\ ret.op = "PuffBuildHuffmanCodeLengths" /\ ret.fin = "ok"
  /\ \E k \in 2..Len(ret.steps) :
       /\ ret.steps[k].code = 16 /\ ret.steps[k].extra > 0
       /\ ret.steps[k - 1].code \in 1..15

\* The puff to bits direction read a value above 155 after a run marker; a
\* code 18 with 7 extra bits was decoded.
C9_WitnessHuff ==
  /\ ret.op = "HuffBuildHuffmanCodeLengths" /\ ret.index >= 2
  /\ inp.buffer[ret.index] > 155
C9_Witness18 ==
  /\ ret.op = "PuffBuildHuffmanCodeLengths" /\ ret.fin = "ok"
  /\ \E k \in 1..Len(ret.steps) : ret.steps[k].code = 18 /\ ret.steps[k].extra > 0

\* C12 as claimed: whenever BuildHuffmanCodeLengths returns true, in either
\* direction, lens holds exactly num_codes entries.
C12_ExactSequenceLength ==
  (pc = "done" /\ ret.fin = "ok") => Len(ret.lens) = inp.num_codes

\* What the loop test idx < num_codes gives: a successful call leaves at
\* least num_codes entries, and fewer than num_codes before its last symbol.
LensReachNumCodes ==
  (pc = "done" /\ ret.fin = "ok") =>
    /\ Len(ret.lens) >= inp.num_codes
    /\ Len(AppendedBefore(ret.steps, Len(ret.steps))) < inp.num_codes

\* A run marker carried a successful call past num_codes, bits to puff and
\* puff to bits.
PuffRunPastNumCodes ==
  /\ pc = "done" /\ ret.op = "PuffBuildHuffmanCodeLengths" /\ ret.fin = "ok"
  /\ Len(ret.lens) > inp.num_codes
  /\ ret.steps[Len(ret.steps)].code >= 16

HuffRunPastNumCodes ==
  /\ pc = "done" /\ ret.op = "HuffBuildHuffmanCodeLengths" /\ ret.fin = "ok"
  /\ Len(ret.lens) > inp.num_codes
  /\ ret.steps[Len(ret.steps)].code >= 16

----------------------------------------------------------------------------
(* Properties of the dynamic header, checked under SpecDyn.                *)

PuffDynReturned == ret.op = "PuffBuildDynamicHuffmanTable"
HuffDynReturned == ret.op = "HuffBuildDynamicHuffmanTable"

\* C1: Dynamic-header round trip on bits.  When the bits to puff call has
\* succeeded, having read k = pos bits and written the bytes P = out, the puff
\* to bits call on exactly P, with a fresh instance and a writer of at least k
\* bits, succeeds and writes the first k bits of the input in their order.
C1_RoundTripOnBits ==
  (HuffDynReturned /\ ret.first.ok /\ ret.cap >= ret.first.pos) =>
    /\ ret.ok
    /\ ret.index = Len(ret.first.out)
    /\ ret.bw.bits = SubSeq(inp.bits, 1, ret.first.pos)

\* A round trip of a header with a nonzero literal/length code length, a copy
\* of the previous length and a long run of zeros, followed by block data.
C1_Witness ==
  /\ HuffDynReturned /\ ret.first.ok /\ ret.cap >= ret.first.pos /\ ret.ok
  /\ ret.first.pos < Len(inp.bits)
  /\ ret.bw.bits = SubSeq(inp.bits, 1, ret.first.pos)
  /\ \E i \in DOMAIN ret.first.out : i > 12 /\ ret.first.out[i] \in 16..19
  /\ \E i \in DOMAIN ret.first.out : i > 12 /\ ret.first.out[i] \in 28..155
  /\ \E i \in DOMAIN ht.lit_len_lens_ : ht.lit_len_lens_[i] # 0

\* C2: Code-length arrays survive the puff header.  When the bits to puff call
\* has succeeded and written P, the puff to bits call on P (its writer large
\* enough) leaves the same 19-entry code_lens_, the same lit_len_lens_ and the
\* same distance_lens_ as the bits to puff call left.
C2_CodeLengthArraysSurvive ==
  (HuffDynReturned /\ ret.first.ok /\ ret.cap >= ret.first.pos) =>
    /\ ret.ok
    /\ Len(ht.code_lens_) = 19
    /\ ht.code_lens_ = ret.first.t.code_lens_
    /\ ht.lit_len_lens_ = ret.first.t.lit_len_lens_
    /\ ht.distance_lens_ = ret.first.t.distance_lens_

\* Both calls have succeeded on a header whose three arrays each hold a
\* nonzero length, the literal/length array being longer than HLIT + 257.
C2_Witness ==
  /\ HuffDynReturned /\ ret.first.ok /\ ret.ok
  /\ ht.code_lens_ = ret.first.t.code_lens_
  /\ ht.lit_len_lens_ = ret.first.t.lit_len_lens_
  /\ ht.distance_lens_ = ret.first.t.distance_lens_
  /\ \E i \in DOMAIN ht.code_lens_ : ht.code_lens_[i] = 3
  /\ \E i \in DOMAIN ht.lit_len_lens_ : ht.lit_len_lens_[i] # 0
  /\ \E i \in DOMAIN ht.distance_lens_ : ht.distance_lens_[i] # 0
  /\ Len(ht.lit_len_lens_) > ret.first.out[1] + 257

\* The meta array a header holds, read off the input bits and off the puff
\* bytes: entry kPermutations[idx] is the idx-th length sent, the others 0.
SentAt(s) == {idx \in 1..Len(kPermutations) : kPermutations[idx] = s}

HeaderMetaOfBits(bits) ==
  [s \in 1..19 |->
     LET sent == {idx \in SentAt(s - 1) : idx <= ReadBits(bits, 10, 4) + 4} IN
     IF sent = {} THEN 0
     ELSE ReadBits(bits, 14 + 3 * ((CHOOSE idx \in sent : TRUE) - 1), 3)]

HeaderMetaOfPuff(buffer) ==
  [s \in 1..19 |->
     LET sent == {idx \in SentAt(s - 1) : idx <= buffer[3] + 4} IN
     IF sent = {} THEN 0
     ELSE LET idx == CHOOSE i \in sent : TRUE
              byte == buffer[3 + ((idx - 1) \div 2) + 1]
          IN IF (idx - 1) % 2 = 0 THEN byte \div 16 ELSE byte % 16]

\* The input holds a header with legal array sizes and its whole meta array.
BitsHoldMeta(bits) ==
  /\ Len(bits) >= 14
  /\ CheckHuffmanArrayLengths(ReadBits(bits, 0, 5) + 257, ReadBits(bits, 5, 5) + 1,
                              ReadBits(bits, 10, 4) + 4)
  /\ Len(bits) >= 14 + 3 * (ReadBits(bits, 10, 4) + 4)

PuffHoldsMeta(buffer) ==
  /\ Len(buffer) >= 3
  /\ CheckHuffmanArrayLengths(buffer[1] + 257, buffer[2] + 1, buffer[3] + 4)
  /\ Len(buffer) - 3 >= (buffer[3] + 5) \div 2

\* The call failed with Error::kInvalidInput.
FailedInvalidInput == ~ret.ok /\ ~ret.ub /\ ret.error = kInvalidInput

\* The arrays of the header that the call that returned has parsed whole.
ParsedArrays ==
  (IF ret.reached >= 1 THEN {ht.code_lens_} ELSE {})
    \cup (IF ret.reached >= 2 THEN {ht.lit_len_lens_} ELSE {})
    \cup (IF ret.reached >= 3 THEN {ht.distance_lens_} ELSE {})

\* C6 as stated: Per-length oversubscription is an InvalidInput error.
\* InitHuffmanCodes returns false on every array in which some length L in
\* 1..15 is carried by more than 2^L symbols, and BuildDynamicHuffmanTable
\* fails with Error::kInvalidInput in either direction whenever the meta array
\* of the header, or an array it has parsed, is such an array.
C6_OversubscribedIsInvalidInput ==
  /\ (PuffDynReturned \/ HuffDynReturned) =>
       \A arr \in ParsedArrays :
          PerLengthOversubscribed(arr) =>
            ~InitHuffmanCodes(arr).ok /\ FailedInvalidInput
  /\ (PuffDynReturned /\ BitsHoldMeta(inp.bits)
        /\ PerLengthOversubscribed(HeaderMetaOfBits(inp.bits))) => FailedInvalidInput
  /\ (HuffDynReturned /\ PuffHoldsMeta(ret.first.out)
        /\ PerLengthOversubscribed(HeaderMetaOfPuff(ret.first.out))) => FailedInvalidInput

\* C6, amended: InitHuffmanCodes returns false on every such array, and
\* BuildDynamicHuffmanTable fails with Error::kInvalidInput in either
\* direction when an array of the header that it has parsed whole is such an
\* array.  It parses the meta array whole when its output has room for it: 
\* (HCLEN + 5) / 2 bytes after the three size bytes, or 14 + 3 * (HCLEN + 4)
\* bits.
C6_ParsedOversubscribedIsInvalidInput ==
  /\ (PuffDynReturned \/ HuffDynReturned) =>
       \A arr \in ParsedArrays :
          PerLengthOversubscribed(arr) =>
            ~InitHuffmanCodes(arr).ok /\ FailedInvalidInput
  /\ (PuffDynReturned /\ BitsHoldMeta(inp.bits)
        /\ inp.length - 3 >= (ReadBits(inp.bits, 10, 4) + 5) \div 2) =>
       /\ ret.reached >= 1
       /\ ht.code_lens_ = HeaderMetaOfBits(inp.bits)
  /\ (HuffDynReturned /\ PuffHoldsMeta(ret.first.out)
        /\ ret.cap >= 14 + 3 * (ret.first.out[3] + 4)) =>
       /\ ret.reached >= 1
       /\ ht.code_lens_ = HeaderMetaOfPuff(ret.first.out)

\* The bits to puff call has parsed a literal/length array with more than two
\* lengths 1 and failed with Error::kInvalidInput.
C6_Witness ==
  /\ PuffDynReturned /\ ret.reached = 2
  /\ CountOfLen(ht.lit_len_lens_, 1) > 2
  /\ FailedInvalidInput

\* The same in the puff to bits direction, and for the meta and the distance
\* array.
C6_WitnessHuff ==
  /\ HuffDynReturned /\ ret.reached = 2
  /\ CountOfLen(ht.lit_len_lens_, 1) > 2
  /\ FailedInvalidInput

C6_WitnessMeta ==
  /\ PuffDynReturned /\ ret.reached = 1
  /\ PerLengthOversubscribed(ht.code_lens_)
  /\ FailedInvalidInput

C6_WitnessDistance ==
  /\ HuffDynReturned /\ ret.reached = 3
  /\ PerLengthOversubscribed(ht.distance_lens_)
  /\ FailedInvalidInput

----------------------------------------------------------------------------
(* Properties of the instance, checked under SpecTable.                    *)

\* C10: Fixed tables after any history.  Whenever BuildFixedHuffmanTable has
\* returned true, whatever calls were made on the instance before, the
\* literal/length lengths are 8 for 0..143, 9 for 144..255, 7 for 256..279
\* and 8 for 280..287, the 30 distance lengths are 5, and the forward and the
\* reverse tables are those built from these lengths.
C10_FixedTablesAfterAnyHistory ==
  (ret.op = "BuildFixedHuffmanTable" /\ ret.ok) =>
    /\ ht.lit_len_lens_ = FixedLitLenLens
    /\ ht.distance_lens_ = FixedDistanceLens
    /\ ht.lit_len_hcodes_ = BuildHuffmanCodes(FixedLitLenLens, NewVec(Pow2(9))).hcodes
    /\ ht.distance_hcodes_ = BuildHuffmanCodes(FixedDistanceLens, NewVec(Pow2(5))).hcodes
    /\ ht.lit_len_rcodes_ = BuildHuffmanReverseCodes(FixedLitLenLens, NewVec(288)).rcodes
    /\ ht.distance_rcodes_ = BuildHuffmanReverseCodes(FixedDistanceLens, NewVec(30)).rcodes

\* On an instance no BuildDynamicHuffmanTable call has touched, the claim
\* holds: the instance holds the fixed tables once BuildFixedHuffmanTable has
\* been called, and calling it again changes nothing.
FixedTablesOnOwnInstance ==
  [][(TableBuildFixedHuffmanTable /\ ht.lit_len_lens_ \in {<<>>, FixedLitLenLens}) =>
       /\ ret'.ok
       /\ ht'.lit_len_lens_ = FixedLitLenLens
       /\ ht'.distance_lens_ = FixedDistanceLens
       /\ ht'.lit_len_hcodes_
            = BuildHuffmanCodes(FixedLitLenLens, NewVec(Pow2(9))).hcodes
       /\ ht'.lit_len_rcodes_
            = BuildHuffmanReverseCodes(FixedLitLenLens, NewVec(288)).rcodes
       /\ (ht.initialized_ => ht' = ht)]_vars

\* BuildFixedHuffmanTable has returned true on an instance that a failed
\* BuildDynamicHuffmanTable call sized, and found 286 zero lengths.
FixedAfterDynamicReturnedTrue ==
  /\ ret.op = "BuildFixedHuffmanTable" /\ ret.ok
  /\ ht.lit_len_lens_ = Zeros(286)

\* C13 as claimed: after any sequence of BuildFixedHuffmanTable and
\* BuildDynamicHuffmanTable calls, in either direction, on one instance, every
\* array a call indexes is large enough for the index: no call writes
\* code_lens_ through kPermutations past its end, clears a forward table of
\* fewer than 2^max_bits entries or reads a table past its end.
C13_ArraysCoverEveryIndex ==
  ret.op # "none" => ~ret.ub

\* On an instance whose every call is BuildDynamicHuffmanTable in one direction
\* the sizing made by the first call covers every later call, and
\* BuildFixedHuffmanTable indexes nothing it has not sized.
OneDirectionStaysInBounds ==
  [][/\ (TablePuffBuildDynamicHuffmanTable
           /\ (ht = NewTable \/ ht.code_hcodes_.size = Pow2(7))) => ~ret'.ub
     /\ (TableHuffBuildDynamicHuffmanTable
           /\ (ht = NewTable \/ ht.code_rcodes_.size = Len(kPermutations))) => ~ret'.ub
     /\ TableBuildFixedHuffmanTable => ~ret'.ub]_vars

\* BuildDynamicHuffmanTable, called after BuildFixedHuffmanTable, has written
\* through kPermutations into a code_lens_ of no entries.
DynamicAfterFixedOverrunsCodeLens ==
  /\ pc = "undefined" /\ ret.op # "BuildFixedHuffmanTable"
  /\ ht.code_lens_ = <<>> /\ ht.lit_len_hcodes_.size = Pow2(9)

\* The bits to puff direction, called after the puff to bits direction, has
\* cleared a code_hcodes_ of no entries.
PuffAfterHuffOverrunsForwardTable ==
  /\ pc = "undefined" /\ ret.op = "PuffBuildDynamicHuffmanTable"
  /\ Len(ht.code_lens_) = Len(kPermutations)
  /\ ht.code_hcodes_.size = 0 /\ ht.code_rcodes_.size = Len(kPermutations)

\* The puff to bits direction, called after the bits to puff direction, has
\* read a code_rcodes_ of no entries.
HuffAfterPuffOverrunsReverseTable ==
  /\ pc = "undefined" /\ ret.op = "HuffBuildDynamicHuffmanTable"
  /\ Len(ht.code_lens_) = Len(kPermutations)
  /\ ht.code_rcodes_.size = 0 /\ ht.code_hcodes_.size = Pow2(7)

====
